---- MODULE Spec2Model ----
(***************************************************************************)
(* Model of scraper.py: a sequential batch scraper.  main validates the    *)
(* requested ID range, scrape_pokemon fetches and extracts one page per    *)
(* ID in ascending order, displays or logs every record, and optionally    *)
(* writes the whole batch to the output file.                              *)
(*                                                                         *)
(* Text is a sequence of one-character strings, except for three units     *)
(* the code only ever handles whole: NL (the legacy cell separator         *)
(* '\r\n\t\t\t'), "lbs" and the words of the ability cells.                *)
(* A parsed page (soup) is a record of what the queries of                 *)
(* extract_statistics return on it.                                        *)
(***************************************************************************)
EXTENDS Integers, Sequences, FiniteSets, TLC

VARIABLES pc, args, first_id, last_id, poke_id, soup, data, data_list,
          gets, console, log, file, error, exit_code

vars == <<pc, args, first_id, last_id, poke_id, soup, data, data_list,
          gets, console, log, file, error, exit_code>>

(***************************** bounds **************************************)

\* The requested IDs are drawn from MAX_ID - Window .. MAX_ID + 1.
Window == 3

\* The tables of the batch pages have at most MaxRows rows.
MaxRows == 4

(***************************** text ****************************************)

NL == "\r\n\t\t\t"

Digits == <<"0", "1", "2", "3", "4", "5", "6", "7", "8", "9">>

IsDigit(c) == \E d \in 1..10 : Digits[d] = c

DigitValue(c) == (CHOOSE d \in 1..10 : Digits[d] = c) - 1

IsSpace(c) == c \in {" ", "\n", "\t", NL}

RECURSIVE LStrip(_)
LStrip(t) ==
    IF t # <<>> /\ IsSpace(Head(t)) THEN LStrip(Tail(t)) ELSE t

RECURSIVE RStrip(_)
RStrip(t) ==
    IF t # <<>> /\ IsSpace(t[Len(t)]) THEN RStrip(SubSeq(t, 1, Len(t) - 1)) ELSE t

\* str.strip()
Strip(t) == RStrip(LStrip(t))

\* str(n) for n >= 0
RECURSIVE StrNat(_)
StrNat(n) ==
    IF n < 10 THEN <<Digits[n + 1]>>
    ELSE StrNat(n \div 10) \o <<Digits[(n % 10) + 1]>>

\* str(n)
Str(n) == IF n < 0 THEN <<"-">> \o StrNat(0 - n) ELSE StrNat(n)

RECURSIVE Zeros(_)
Zeros(k) == IF k <= 0 THEN <<>> ELSE <<"0">> \o Zeros(k - 1)

\* str.zfill(width): pads with zeros on the left, after a leading sign
Zfill(t, width) ==
    IF t # <<>> /\ Head(t) \in {"-", "+"}
    THEN <<Head(t)>> \o Zeros(width - Len(t)) \o Tail(t)
    ELSE Zeros(width - Len(t)) \o t

\* str.split(sep) with an explicit one-unit separator: one piece more than
\* there are separators, empty pieces kept
RECURSIVE SplitAcc(_, _, _)
SplitAcc(t, sep, cur) ==
    IF t = <<>> THEN <<cur>>
    ELSE IF Head(t) = sep THEN <<cur>> \o SplitAcc(Tail(t), sep, <<>>)
    ELSE SplitAcc(Tail(t), sep, Append(cur, Head(t)))

Split(t, sep) == SplitAcc(t, sep, <<>>)

\* str.replace(old, new) for a one-unit old
RECURSIVE Replace(_, _, _)
Replace(t, old, new) ==
    IF t = <<>> THEN <<>>
    ELSE (IF Head(t) = old THEN new ELSE <<Head(t)>>) \o Replace(Tail(t), old, new)

\* 'needle in text'
Contains(t, needle) ==
    \E i \in 1..(Len(t) - Len(needle) + 1) : SubSeq(t, i, i + Len(needle) - 1) = needle

RECURSIVE DigitsValue(_, _)
DigitsValue(t, acc) ==
    IF t = <<>> THEN acc ELSE DigitsValue(Tail(t), 10 * acc + DigitValue(Head(t)))

\* int(text): surrounding whitespace and one sign are accepted, then digits
IntBody(t) == IF t # <<>> /\ Head(t) \in {"-", "+"} THEN Tail(t) ELSE t

IntOk(t) ==
    LET b == IntBody(Strip(t))
    IN  b # <<>> /\ \A i \in 1..Len(b) : IsDigit(b[i])

IntValue(t) ==
    LET s == Strip(t)
        v == DigitsValue(IntBody(s), 0)
    IN  IF Head(s) = "-" THEN 0 - v ELSE v

\* Concatenation of the pieces of a sequence of texts
RECURSIVE Flatten(_)
Flatten(ts) == IF ts = <<>> THEN <<>> ELSE Head(ts) \o Flatten(Tail(ts))

(***************************** pages ***************************************)

\* A table located through a named anchor: whether the anchor exists
\* (soup.find('a', {'name': ...})), whether it has an enclosing table
\* (find_parent('table')), and the td texts of each tr of that table.
\* The fooinfo cells carry their text and the result of
\* find('td', string='Standard') / findNext('td').

\* 'https://serebii.net/pokedex-sv/{}.shtml'.format(str(poke_id).zfill(3))
Url(id) == <<"https://serebii.net/pokedex-sv/">> \o Zfill(Str(id), 3) \o <<".shtml">>

\* '#{}'.format(str(poke_id).zfill(3))
Number(id) == <<"#">> \o Zfill(Str(id), 3)

None == [none |-> TRUE]

Raise(exc, line) == [ok |-> FALSE, exc |-> exc, line |-> line, val |-> None]

Return(val) == [ok |-> TRUE, exc |-> "", line |-> 0, val |-> val]

\* soup.find('a', {'name': n}).find_parent('table'): find returns None when
\* the anchor is absent and the attribute access on None raises
FindParentTable(a) == [raised |-> ~a.anchor, found |-> a.anchor /\ a.table]

UnguardedFindParentTable(a) == [raised |-> ~a.anchor, found |-> a.anchor /\ a.table]

\* the same lookup inside try / except AttributeError: egg_table = None
GuardedFindParentTable(a) == [raised |-> FALSE, found |-> a.anchor /\ a.table]

\* lines 78-84 and 90-96: for row in rows, if len(cols) >= 2, append
\* f"{cols[0].text.strip()}: {cols[1].text.strip()}"
RECURSIVE PairLoop(_, _)
PairLoop(rows, acc) ==
    IF rows = <<>> THEN acc
    ELSE LET cols == Head(rows)
         IN  PairLoop(Tail(rows),
                      IF Len(cols) >= 2
                      THEN Append(acc, Strip(cols[1]) \o <<":", " ">> \o Strip(cols[2]))
                      ELSE acc)

SkipOneHeaderRow(rows) == SubSeq(rows, 2, Len(rows))

\* find_all('tr')[2:]
SkipHeaderRows(rows) == SubSeq(rows, 3, Len(rows))

\* level_up_moves / tm_hm_moves for a table reference that did not raise
PairMoves(a) ==
    IF FindParentTable(a).found THEN PairLoop(SkipHeaderRows(a.rows), <<>>) ELSE <<>>

\* lines 105-110: for row in rows, if len(cols) >= 2, append cols[0].text.strip()
RECURSIVE EggLoop(_, _)
EggLoop(rows, acc) ==
    IF rows = <<>> THEN acc
    ELSE LET cols == Head(rows)
         IN  EggLoop(Tail(rows),
                     IF Len(cols) >= 2 THEN Append(acc, Strip(cols[1])) ELSE acc)

EggMoves(a) ==
    IF GuardedFindParentTable(a).found THEN EggLoop(SkipHeaderRows(a.rows), <<>>) ELSE <<>>

\* lines 120-124: one entry per td of an abilities row
RECURSIVE AbilityCells(_, _)
AbilityCells(cells, acc) ==
    IF cells = <<>> THEN acc
    ELSE LET text == Head(cells)
         IN  AbilityCells(Tail(cells),
                 IF Contains(text, <<"Hidden", " ", "Ability">>)
                 THEN Append(acc, Strip(text) \o <<" ", "(Hidden)">>)
                 ELSE Append(acc, Strip(text)))

\* lines 117-119: the rows whose text contains 'Abilities'
RECURSIVE AbilityRows(_, _)
AbilityRows(rows, acc) ==
    IF rows = <<>> THEN acc
    ELSE AbilityRows(Tail(rows),
             IF Contains(Flatten(Head(rows)), <<"Abilities">>)
             THEN AbilityCells(Head(rows), acc)
             ELSE acc)

\* lines 113-124
Abilities(t) == IF t.found THEN AbilityRows(t.rows, <<>>) ELSE <<>>

\* lines 65-70: the legacy split, overridden when the 'Standard' cell exists
Height(info) ==
    IF info[7].std.found
    THEN Split(Replace(info[7].std.text, "\"", <<"\"", " ">>), " ")
    ELSE Split(info[7].text, NL)

Weight(info) ==
    IF info[7].std.found
    THEN Split(Replace(info[8].std.text, "lbs", <<"lbs", " ">>), " ")
    ELSE Split(info[8].text, NL)

\* lines 61-125: the statements of the try block in order; the first one
\* that raises ends the block
TryBlock(page) ==
    IF page.divs < 2 THEN Raise("IndexError", 63)
    ELSE IF Len(page.info) < 7 THEN Raise("IndexError", 65)
    ELSE IF Len(page.info) < 8 THEN Raise("IndexError", 66)
    ELSE IF page.info[7].std.found /\ ~page.info[7].std.next
         THEN Raise("AttributeError", 69)
    ELSE IF page.info[7].std.found /\ ~(page.info[8].std.found /\ page.info[8].std.next)
         THEN Raise("AttributeError", 70)
    ELSE IF ~page.stats.found THEN Raise("AttributeError", 72)
    ELSE IF FindParentTable(page.level).raised THEN Raise("AttributeError", 76)
    ELSE IF FindParentTable(page.tmhm).raised THEN Raise("AttributeError", 88)
    ELSE IF GuardedFindParentTable(page.egg).raised THEN Raise("AttributeError", 101)
    ELSE Return([center_panel_info |-> page.info,
                 height |-> Height(page.info),
                 weight |-> Weight(page.info),
                 base_stats_td |-> page.stats.cells,
                 level_up_moves |-> PairMoves(page.level),
                 tm_hm_moves |-> PairMoves(page.tmhm),
                 egg_moves |-> EggMoves(page.egg),
                 abilities |-> Abilities(page.dextable)])

\* The source line of each int(base_stats_td[i].text), in the order the
\* dictionary display evaluates them
StatLines == <<136, 138, 139, 140, 141>>

StatFails(cells, i) == Len(cells) < i \/ ~IntOk(cells[i])

\* lines 130-145: the dictionary is built outside the try block
Assemble(id, l) ==
    IF \E i \in 1..5 : StatFails(l.base_stats_td, i)
    THEN LET i == CHOOSE j \in 1..5 : StatFails(l.base_stats_td, j)
                      /\ \A k \in 1..(j - 1) : ~StatFails(l.base_stats_td, k)
         IN  Raise(IF Len(l.base_stats_td) < i THEN "IndexError" ELSE "ValueError",
                   StatLines[i])
    ELSE Return([name |-> l.center_panel_info[2].text,
                 number |-> Number(id),
                 classification |-> l.center_panel_info[6].text,
                 height |-> l.height,
                 weight |-> l.weight,
                 hit_points |-> IntValue(l.base_stats_td[1]),
                 abilities |-> l.abilities,
                 attack |-> IntValue(l.base_stats_td[2]),
                 defense |-> IntValue(l.base_stats_td[3]),
                 special |-> IntValue(l.base_stats_td[4]),
                 speed |-> IntValue(l.base_stats_td[5]),
                 level_up_moves |-> l.level_up_moves,
                 tm_hm_moves |-> l.tm_hm_moves,
                 egg_moves |-> l.egg_moves])

LogEntry(level, msg, arg) == [level |-> level, msg |-> msg, arg |-> arg]

\* lines 126-128: the handler of the try block logs the URL and re-raises
ExceptHandler(id, r) ==
    [ok |-> FALSE, exc |-> r.exc, line |-> r.line, val |-> None,
     logs |-> <<LogEntry("ERROR", "html elements", Url(id))>>]

\* lines 57-147, for the parsed page of poke_id
extract_statistics(id, page) ==
    LET t == TryBlock(page)
    IN  IF ~t.ok THEN ExceptHandler(id, t)
        ELSE LET r == Assemble(id, t.val)
             IN  [ok |-> r.ok, exc |-> r.exc, line |-> r.line, val |-> r.val,
                  logs |-> <<>>]

(***************************** inputs **************************************)

NoStd == [found |-> FALSE, next |-> FALSE, text |-> <<>>]

Std(text) == [found |-> TRUE, next |-> TRUE, text |-> text]

StdNoNext == [found |-> TRUE, next |-> FALSE, text |-> <<>>]

Cell(text, std) == [text |-> text, std |-> std]

HeightLegacy == <<"1", "'", "0", "4", "\"", NL, "0", ".", "4", "m">>

WeightLegacy == <<"1", "5", ".", "2", "lbs", NL, "6", ".", "9", "k", "g">>

HeightStd == <<"1", "'", "0", "4", "\"", "/", " ", "0", ".", "4", "m">>

WeightStd == <<"1", "5", ".", "2", "lbs", "/", " ", "6", ".", "9", "k", "g">>

\* The fooinfo cells of the second centered div, in one of the layouts of
\* the height and weight cells
FullInfo(variant) ==
    <<Cell(<<>>, NoStd),
      Cell(<<"M", "e", "w">>, NoStd),
      Cell(<<>>, NoStd),
      Cell(<<>>, NoStd),
      Cell(<<>>, NoStd),
      Cell(<<"S", "e", "e", "d">>, NoStd),
      Cell(HeightLegacy,
           CASE variant = "legacy" -> NoStd
             [] variant = "std_nonext" -> StdNoNext
             [] OTHER -> Std(HeightStd)),
      Cell(WeightLegacy,
           CASE variant = "standard" -> Std(WeightStd)
             [] variant = "std_weight_nonext" -> StdNoNext
             [] OTHER -> NoStd),
      Cell(<<>>, NoStd)>>

Variants == {"legacy", "standard", "std_nonext", "std_height_only", "std_weight_nonext"}

\* What find_all('div', align=center) and findAll('td', class=fooinfo) return
Structs ==
    {[divs |-> 1, info |-> <<>>]}
    \cup {[divs |-> 2, info |-> SubSeq(FullInfo("legacy"), 1, n)] : n \in {6, 7, 9}}
    \cup {[divs |-> 3, info |-> FullInfo(v)] : v \in Variants}

GoodStructs == {[divs |-> 2, info |-> FullInfo(v)] : v \in {"legacy", "standard"}}

StatCells == <<<<"4", "5">>, <<" ", "4", "9">>, <<"4", "9">>, <<"6", "5">>, <<"1", "0", "0">>, <<"3", "1", "8">>>>

\* What find('td', string=re.compile(...)) and find_next_siblings('td') return
AllStats ==
    {[found |-> FALSE, cells |-> <<>>]}
    \cup {[found |-> TRUE, cells |-> SubSeq(StatCells, 1, n)] : n \in {0, 4, 5, 6}}
    \cup {[found |-> TRUE, cells |-> [StatCells EXCEPT ![i] = t]] :
              i \in {1, 3, 5}, t \in {<<"-">>, <<"4", "x">>, <<>>}}

GoodStats ==
    {[found |-> TRUE, cells |-> SubSeq(StatCells, 1, 5)],
     [found |-> TRUE, cells |-> SubSeq([StatCells EXCEPT ![1] = <<"-", "1">>], 1, 5)],
     [found |-> TRUE, cells |-> [StatCells EXCEPT ![5] = <<"4", "x">>]]}

\* The td texts of one tr
Rows ==
    {<<<<"L">>>>,
     <<<<" ", "7">>, <<"T", " ">>>>,
     <<<<"9">>, <<"V">>, <<"G">>>>}

RECURSIVE TablesOf(_)
TablesOf(n) ==
    IF n = 0 THEN {<<>>}
    ELSE LET shorter == TablesOf(n - 1)
         IN  shorter \cup {Append(t, r) : t \in {u \in shorter : Len(u) = n - 1}, r \in Rows}

Anchor(rows) == [anchor |-> TRUE, table |-> TRUE, rows |-> rows]

NoAnchor == [anchor |-> FALSE, table |-> FALSE, rows |-> <<>>]

OrphanAnchor == [anchor |-> TRUE, table |-> FALSE, rows |-> <<>>]

\* What the lookup of a named anchor and of the rows of its table return
AllAnchors(n) == {NoAnchor, OrphanAnchor} \cup {Anchor(t) : t \in TablesOf(n)}

SampleTable == <<<<<<"h">>>>, <<<<"h">>, <<"h">>>>, <<<<" ", "7">>, <<"T", " ">>>>, <<<<"L">>>>, <<<<"9">>, <<"V">>, <<"G">>>>>>

FewAnchors == {NoAnchor, OrphanAnchor, Anchor(SampleTable)}

DexRows ==
    <<<<<<"N", "a", "m", "e">>>>,
      <<<<"Abilities", ":", " ", "O">>, <<" ", "Hidden", " ", "Ability", ":", " ", "C">>>>>>

\* What find('table', class=dextable) and its rows return
DexTables == {[found |-> FALSE, rows |-> <<>>], [found |-> TRUE, rows |-> DexRows]}

PagesOver(structs, stats, levels, tmhms, eggs, dextables) ==
    {[divs |-> s.divs, info |-> s.info, stats |-> st, level |-> lv, tmhm |-> tm,
      egg |-> eg, dextable |-> dx] :
        s \in structs, st \in stats, lv \in levels, tm \in tmhms, eg \in eggs,
        dx \in dextables}

\* The pages extraction is checked on: every layout of the fixed-position
\* cells with a few tables, and every table with a few layouts
LayoutPages ==
    PagesOver(Structs, AllStats, FewAnchors, FewAnchors, FewAnchors, DexTables)

LevelPages ==
    PagesOver(GoodStructs, GoodStats, AllAnchors(MaxRows), FewAnchors,
              {NoAnchor, Anchor(SampleTable)}, {[found |-> TRUE, rows |-> DexRows]})

TmHmPages ==
    PagesOver(GoodStructs, GoodStats, FewAnchors, AllAnchors(MaxRows),
              {NoAnchor, Anchor(SampleTable)}, {[found |-> TRUE, rows |-> DexRows]})

\* The pages the source host serves during a batch
BatchPages ==
    PagesOver({[divs |-> 1, info |-> <<>>], [divs |-> 2, info |-> FullInfo("standard")]},
              GoodStats \cup {[found |-> FALSE, cells |-> <<>>]},
              {NoAnchor, Anchor(SampleTable)}, {Anchor(SampleTable)},
              {NoAnchor}, {[found |-> TRUE, rows |-> DexRows]})

NoPage == None

(***************************** the run *************************************)

\* line 183: the first unsupported ID
MAX_ID == 1026

Ids == (MAX_ID - Window)..(MAX_ID + 1)

\* the IDs extraction alone is checked with
ExtractIds == {7, 1025}

\* the output file left by an earlier run
OldFile == [writes |-> 0, content |-> <<[name |-> <<"o", "l", "d">>]>>]

NoError == [phase |-> "", exc |-> "", line |-> 0]

\* lines 179-188; exit() raises SystemExit, whose code is None
validate_input_loose(first_id_input, last_id_input) ==
    IF first_id_input > MAX_ID \/ last_id_input > MAX_ID
    THEN [exit |-> TRUE, first |-> first_id_input, last |-> last_id_input,
          logs |-> <<LogEntry("ERROR", "not yet supported", <<>>)>>]
    ELSE [exit |-> FALSE, first |-> first_id_input,
          last |-> IF last_id_input < first_id_input THEN first_id_input
                   ELSE last_id_input,
          logs |-> <<>>]

validate_input_swapped(first_id_input, last_id_input) ==
    IF first_id_input >= MAX_ID \/ last_id_input >= MAX_ID
    THEN [exit |-> TRUE, first |-> first_id_input, last |-> last_id_input,
          logs |-> <<LogEntry("ERROR", "not yet supported", <<>>)>>]
    ELSE [exit |-> FALSE,
          first |-> IF last_id_input < first_id_input THEN last_id_input
                    ELSE first_id_input,
          last |-> last_id_input,
          logs |-> <<>>]

validate_input(first_id_input, last_id_input) ==
    IF first_id_input >= MAX_ID \/ last_id_input >= MAX_ID
    THEN [exit |-> TRUE, first |-> first_id_input, last |-> last_id_input,
          logs |-> <<LogEntry("ERROR", "not yet supported", <<>>)>>]
    ELSE [exit |-> FALSE, first |-> first_id_input,
          last |-> IF last_id_input < first_id_input THEN first_id_input
                   ELSE last_id_input,
          logs |-> <<>>]

\* line 37: range(first_id, last_id + 1) is exhausted
RangeDone_exclusive(id, last) == id >= last

RangeDone(id, last) == id > last

\* line 41
ShouldDisplay_unless_saving(a) == ~a.save

ShouldDisplay(a) == a.verbose \/ ~a.save

\* lines 197-199: main logs the exception and re-raises it, which ends the
\* interpreter with status 1
MainExcept(exc) == <<LogEntry("ERROR", "exception", <<exc>>)>>

Init ==
    /\ pc = "main"
    /\ args \in [first : Ids, last : Ids, save : BOOLEAN, verbose : BOOLEAN]
    /\ first_id = 0
    /\ last_id = 0
    /\ poke_id = 0
    /\ soup = NoPage
    /\ data = None
    /\ data_list = <<>>
    /\ gets = <<>>
    /\ console = <<>>
    /\ log = <<>>
    /\ file = OldFile
    /\ error = NoError
    /\ exit_code = -1

\* lines 193-196 up to the first iteration of the loop of scrape_pokemon
Main ==
    /\ pc = "main"
    /\ LET v == validate_input(args.first, args.last)
           started == <<LogEntry("INFO", "Extracting data", <<>>)>>
       IN  IF v.exit
           THEN /\ pc' = "exited"
                /\ exit_code' = 0
                /\ log' = log \o started \o v.logs
                /\ UNCHANGED <<first_id, last_id, poke_id>>
           ELSE /\ pc' = "loop"
                /\ first_id' = v.first
                /\ last_id' = v.last
                /\ poke_id' = v.first
                /\ log' = log \o started
                /\ UNCHANGED exit_code
    /\ UNCHANGED <<args, soup, data, data_list, gets, console, file, error>>

\* lines 57-59: one GET for the page of poke_id; the response is parsed, or
\* the request raises and the exception reaches main
Fetch ==
    /\ pc = "loop"
    /\ ~RangeDone(poke_id, last_id)
    /\ \E answered \in BOOLEAN, page \in BatchPages :
         IF answered
         THEN /\ gets' = Append(gets, [url |-> Url(poke_id), page |-> page])
              /\ soup' = page
              /\ pc' = "extract"
              /\ UNCHANGED <<log, error, exit_code>>
         ELSE /\ gets' = Append(gets, [url |-> Url(poke_id), page |-> NoPage])
              /\ error' = [phase |-> "fetch", exc |-> "ConnectionError", line |-> 58]
              /\ log' = log \o MainExcept("ConnectionError")
              /\ pc' = "raised"
              /\ exit_code' = 1
              /\ UNCHANGED soup
    /\ UNCHANGED <<args, first_id, last_id, poke_id, data, data_list, console, file>>

\* a variant that skips the ID whose extraction failed
Extract_skip ==
    /\ pc = "extract"
    /\ LET r == extract_statistics(poke_id, soup)
       IN  IF r.ok
           THEN /\ data' = r.val
                /\ data_list' = Append(data_list, r.val)
                /\ IF ShouldDisplay(args)
                   THEN /\ console' = Append(console, r.val)
                        /\ UNCHANGED log
                   ELSE /\ log' = Append(log, LogEntry("INFO", "Scraped",
                                                       r.val.number \o <<" ">> \o r.val.name))
                        /\ UNCHANGED console
                /\ poke_id' = poke_id + 1
                /\ pc' = "loop"
                /\ UNCHANGED <<error, exit_code, file>>
           ELSE /\ log' = log \o r.logs
                /\ poke_id' = poke_id + 1
                /\ pc' = "loop"
                /\ UNCHANGED <<data, data_list, console, file, error, exit_code>>
    /\ UNCHANGED <<args, first_id, last_id, soup, gets>>

\* a variant that writes what was scraped so far when extraction fails
Extract_partial_save ==
    /\ pc = "extract"
    /\ LET r == extract_statistics(poke_id, soup)
       IN  IF r.ok
           THEN /\ data' = r.val
                /\ data_list' = Append(data_list, r.val)
                /\ IF ShouldDisplay(args)
                   THEN /\ console' = Append(console, r.val)
                        /\ UNCHANGED log
                   ELSE /\ log' = Append(log, LogEntry("INFO", "Scraped",
                                                       r.val.number \o <<" ">> \o r.val.name))
                        /\ UNCHANGED console
                /\ poke_id' = poke_id + 1
                /\ pc' = "loop"
                /\ UNCHANGED <<error, exit_code, file>>
           ELSE /\ error' = [phase |-> "extract", exc |-> r.exc, line |-> r.line]
                /\ log' = log \o r.logs \o MainExcept(r.exc)
                /\ file' = IF args.save
                           THEN [writes |-> file.writes + 1, content |-> data_list]
                           ELSE file
                /\ pc' = "raised"
                /\ exit_code' = 1
                /\ UNCHANGED <<data, data_list, console, poke_id>>
    /\ UNCHANGED <<args, first_id, last_id, soup, gets>>

\* lines 38-44: the rest of one iteration, extraction of the fetched page,
\* then append and display or log; an exception of extract_statistics
\* leaves scrape_pokemon and reaches main
Extract ==
    /\ pc = "extract"
    /\ LET r == extract_statistics(poke_id, soup)
       IN  IF r.ok
           THEN /\ data' = r.val
                /\ data_list' = Append(data_list, r.val)
                /\ IF ShouldDisplay(args)
                   THEN /\ console' = Append(console, r.val)
                        /\ UNCHANGED log
                   ELSE /\ log' = Append(log, LogEntry("INFO", "Scraped",
                                                       r.val.number \o <<" ">> \o r.val.name))
                        /\ UNCHANGED console
                /\ poke_id' = poke_id + 1
                /\ pc' = "loop"
                /\ UNCHANGED <<error, exit_code>>
           ELSE /\ error' = [phase |-> "extract", exc |-> r.exc, line |-> r.line]
                /\ log' = log \o r.logs \o MainExcept(r.exc)
                /\ pc' = "raised"
                /\ exit_code' = 1
                /\ UNCHANGED <<data, data_list, console, poke_id>>
    /\ UNCHANGED <<args, first_id, last_id, soup, gets, file>>

\* lines 171-176: open(mode='w') and json.dump replace the file's content
save_to_json(list) == [writes |-> file.writes + 1, content |-> list]

\* lines 46-50, then the normal end of main
Finish ==
    /\ pc = "loop"
    /\ RangeDone(poke_id, last_id)
    /\ IF args.save
       THEN /\ log' = Append(log, LogEntry("INFO", "Saving to", <<"pokemon.json">>))
            /\ file' = save_to_json(data_list)
       ELSE /\ log' = Append(log, LogEntry("INFO", "All retrieved", <<>>))
            /\ UNCHANGED file
    /\ pc' = "done"
    /\ exit_code' = 0
    /\ UNCHANGED <<args, first_id, last_id, poke_id, soup, data, data_list, gets,
                   console, error>>

Next == Main \/ Fetch \/ Extract \/ Finish

Spec == Init /\ [][Next]_vars

(***************************** extraction alone ****************************)

InitExtract ==
    /\ pc = "call"
    /\ args = [first |-> 1, last |-> 1, save |-> FALSE, verbose |-> FALSE]
    /\ first_id = 0
    /\ last_id = 0
    /\ poke_id \in ExtractIds
    /\ \/ soup \in LayoutPages
       \/ soup \in LevelPages
       \/ soup \in TmHmPages
    /\ data = None
    /\ data_list = <<>>
    /\ gets = <<>>
    /\ console = <<>>
    /\ log = <<>>
    /\ file = OldFile
    /\ error = NoError
    /\ exit_code = -1

\* one call of extract_statistics on a parsed page
ExtractCall ==
    /\ pc = "call"
    /\ LET r == extract_statistics(poke_id, soup)
       IN  /\ data' = r.val
           /\ log' = log \o r.logs
           /\ error' = IF r.ok THEN NoError
                       ELSE [phase |-> "extract", exc |-> r.exc, line |-> r.line]
           /\ pc' = IF r.ok THEN "returned" ELSE "propagated"
    /\ UNCHANGED <<args, first_id, last_id, poke_id, soup, data_list, gets, console,
                   file, exit_code>>

NextExtract == ExtractCall

SpecExtract == InitExtract /\ [][NextExtract]_vars

(***************************** properties **********************************)

Halted == pc \in {"raised", "exited"}

ExtractionFailed == pc = "raised" /\ error.phase = "extract"

\* C1: a batch that runs to its end holds exactly last_id - first_id + 1
\* records, and the i-th one is the record extracted from the page fetched
\* for ID first_id + i - 1, so the IDs ascend without a gap or a repetition.
BatchInAscendingIdOrder ==
    pc = "done" =>
        /\ first_id <= last_id
        /\ last_id < MAX_ID
        /\ Len(data_list) = last_id - first_id + 1
        /\ Len(gets) = Len(data_list)
        /\ \A i \in 1..Len(data_list) :
              /\ gets[i].url = Url(first_id + i - 1)
              /\ data_list[i] = extract_statistics(first_id + i - 1, gets[i].page).val
              /\ data_list[i].number = Number(first_id + i - 1)

BatchOfThreeDone ==
    /\ pc = "done"
    /\ last_id = first_id + 2
    /\ Len(data_list) = 3
    /\ data_list[1] # data_list[2]

\* C2: a failed extraction for ID k halts the batch at k: the records are
\* those of the IDs before k, nothing was displayed, appended or written for
\* k, the last GET is the one for k, and no ID is ever skipped over.
BatchHaltsAtFailure ==
    /\ error.phase = "extract" => pc = "raised"
    /\ pc \in {"loop", "extract", "done"} =>
          /\ error = NoError
          /\ Len(data_list) = poke_id - first_id
    /\ ExtractionFailed =>
          /\ Len(data_list) = poke_id - first_id
          /\ \A i \in 1..Len(data_list) : data_list[i].number = Number(first_id + i - 1)
          /\ Len(console) <= Len(data_list)
          /\ \A i \in 1..Len(console) : console[i] = data_list[i]
          /\ Len(gets) = poke_id - first_id + 1
          /\ gets[Len(gets)].url = Url(poke_id)
          /\ file = OldFile

HaltedInMidRange ==
    /\ ExtractionFailed
    /\ error.line = 72
    /\ first_id < poke_id
    /\ poke_id < last_id
    /\ Len(data_list) = 1

\* C3: with a first or last ID of 1026 or more the run ends in
\* validate_input: no GET, no record, nothing displayed, file not written.
InvalidRangeDoesNoWork ==
    (args.first >= MAX_ID \/ args.last >= MAX_ID) =>
        /\ pc \in {"main", "exited"}
        /\ gets = <<>>
        /\ data_list = <<>>
        /\ console = <<>>
        /\ file = OldFile

ExitedOnFirstId ==
    /\ pc = "exited"
    /\ args.first = MAX_ID
    /\ args.last < MAX_ID

\* C4: every run that ends because of an error, the range error included,
\* ends with a non-zero exit status.
ErrorExitIsNonZero == Halted => exit_code # 0

\* C5: for IDs below 1026, validate_input leaves first unchanged, raises
\* last to first when last < first and leaves it unchanged otherwise.
ValidatedRange ==
    (pc # "main" /\ args.first < MAX_ID /\ args.last < MAX_ID) =>
        /\ pc # "exited"
        /\ first_id = args.first
        /\ last_id >= first_id
        /\ args.last < args.first => last_id = args.first
        /\ args.last >= args.first => last_id = args.last

LastCoercedUp ==
    /\ pc = "loop"
    /\ args.last < args.first
    /\ first_id = args.first
    /\ last_id = args.first

\* C6: every extraction error is logged with the URL of the page before it
\* aborts the batch.
ExtractionErrorLogsUrl ==
    ExtractionFailed =>
        \E i \in 1..Len(log) : log[i].level = "ERROR" /\ log[i].arg = Url(poke_id)

\* C7 as stated: no run both displays records and writes the file.
OutputPathsExclusive == ~(console # <<>> /\ file.writes > 0)

\* C7: without save the file is never written; with save and without
\* verbose no record is displayed; with both flags a finished run has
\* displayed every record and written the batch.
OutputPathsFollowFlags ==
    /\ ~args.save => file.writes = 0
    /\ (args.save /\ ~args.verbose) => console = <<>>
    /\ (console # <<>> /\ file.writes > 0) => (args.save /\ args.verbose)
    /\ (pc = "done" /\ args.save /\ args.verbose) =>
          /\ console = data_list
          /\ file.writes = 1
          /\ file.content = data_list

DisplayedAndSaved ==
    /\ pc = "done"
    /\ args.save
    /\ args.verbose
    /\ console # <<>>
    /\ file.writes = 1

RecordFields ==
    {"name", "number", "classification", "height", "weight", "hit_points",
     "abilities", "attack", "defense", "special", "speed", "level_up_moves",
     "tm_hm_moves", "egg_moves"}

\* Every element the extraction needs, the egg-moves anchor aside
RequiredPresent(page) ==
    /\ page.divs >= 2
    /\ Len(page.info) >= 8
    /\ page.info[7].std.found =>
          /\ page.info[7].std.next
          /\ page.info[8].std.found
          /\ page.info[8].std.next
    /\ page.stats.found
    /\ Len(page.stats.cells) >= 5
    /\ \A i \in 1..5 : IntOk(page.stats.cells[i])
    /\ page.level.anchor
    /\ page.tmhm.anchor

\* C8: on a page without the egg-moves anchor and with every other required
\* element, extraction returns a complete record whose egg_moves is empty.
MissingEggAnchorIsEmptyList ==
    (pc # "call" /\ ~soup.egg.anchor /\ RequiredPresent(soup)) =>
        /\ pc = "returned"
        /\ error = NoError
        /\ DOMAIN data = RecordFields
        /\ data.egg_moves = <<>>

ReturnedWithoutEggAnchor ==
    /\ pc = "returned"
    /\ ~soup.egg.anchor
    /\ data.level_up_moves # <<>>

\* The rows after the first two that have at least two cells
KeptRows(rows) == {i \in 3..Len(rows) : Len(rows[i]) >= 2}

\* The index of the j-th kept row
KeptRow(rows, j) ==
    CHOOSE i \in KeptRows(rows) : Cardinality({k \in KeptRows(rows) : k <= i}) = j

PairsOfTable(a, moves) ==
    IF ~a.table THEN moves = <<>>
    ELSE /\ Len(moves) = Cardinality(KeptRows(a.rows))
         /\ Len(a.rows) < 3 => moves = <<>>
         /\ \A j \in 1..Len(moves) :
               LET cols == a.rows[KeptRow(a.rows, j)]
               IN  moves[j] = Strip(cols[1]) \o <<":", " ">> \o Strip(cols[2])

\* C9: without the 'standardlevel' or the 'tmhm' anchor extraction raises;
\* with the anchor the extractor does not raise, and a returned record holds
\* one "<cell0>: <cell1>" string for each row after the first two that has
\* at least two cells, in row order.
PairTablesPolicy ==
    pc # "call" =>
        /\ (~soup.level.anchor \/ ~soup.tmhm.anchor) => pc = "propagated"
        /\ soup.level.anchor => ~(error.line \in 76..84)
        /\ soup.tmhm.anchor => ~(error.line \in 88..96)
        /\ pc = "returned" =>
              /\ PairsOfTable(soup.level, data.level_up_moves)
              /\ PairsOfTable(soup.tmhm, data.tm_hm_moves)

PairsFromBothTables ==
    /\ pc = "returned"
    /\ Len(data.level_up_moves) = 2
    /\ Len(soup.level.rows) = 5
    /\ Len(data.tm_hm_moves) = 2
    /\ Len(soup.tmhm.rows) = 5

\* C10: the file is written at most once, only with save set and only after
\* every ID of the range was extracted, with the whole batch; a run halted
\* by an error leaves the earlier file as it was.
FileWrittenOnceAfterSuccess ==
    /\ file.writes <= 1
    /\ file.writes = 0 => file = OldFile
    /\ file.writes = 1 =>
          /\ args.save
          /\ pc = "done"
          /\ Len(data_list) = last_id - first_id + 1
          /\ file.content = data_list
    /\ Halted => file = OldFile

HaltedWithUnsavedRecords ==
    /\ pc = "raised"
    /\ args.save
    /\ data_list # <<>>
    /\ file = OldFile

====
